---- MODULE Spec2Model ----
(***************************************************************************)
(* State-machine model of van.py: the Telegram task monitor.               *)
(*                                                                         *)
(* One flow of control (the asyncio coroutine start_bot -> monitor ->      *)
(* get_task_count -> navigate_to_tasks, with reconnect as the failure      *)
(* path) is modelled by the program counter pc.  The remote side (the      *)
(* messages an iter_messages call yields, whether a click or a send is     *)
(* accepted, how a connection attempt ends) is the environment: each       *)
(* action draws it from a small set with \E.                               *)
(*                                                                         *)
(* Two functions are also examined on their own, over all their inputs:    *)
(* click_button_by_relation (SelSpec) and send_error_notification          *)
(* (ErrSpec).                                                              *)
(***************************************************************************)
EXTENDS Integers, Sequences, FiniteSets, TLC

\* ------------------------------------------------------------------ bounds
\* Largest number of bullet markers a task-list message carries.
MaxCount == 2
\* Number of distinct clock readings datetime.now() can give.
MaxTime == 2
\* Largest number of rows, and of buttons in a row, of the grids the
\* selector is examined on.
MaxRows == 2
MaxCols == 2

\* ------------------------------------------------------- program constants
max_retries == 5
\* limit=3 of the three iter_messages calls of navigate_to_tasks.
NavLimit == 3
\* limit=1 of the iter_messages call of get_task_count.
CountLimit == 1
\* threshold=0.6, in thousandths.
threshold == 600

\* The names bound at module level (van.py's globals and imports that the
\* monitor's f-strings read).  TARGET_BOT is bound; TARGET_Bot is not.
Globals == {"TARGET_BOT", "NOTIFICATION_GROUP", "BOT_OWNER_ID", "client",
            "last_task_count", "last_notification_time", "check_interval",
            "max_retries", "retry_delay", "notification_entity"}

\* Reading a name that is not bound raises NameError.
NameDefined(name) == name \in Globals

\* ---------------------------------------------------------------- matcher
\* similar(a, b): SequenceMatcher(None, a.lower(), b.lower()).ratio(), in
\* thousandths (rounded down), for the button labels of the model against
\* the three target phrases of navigate_to_tasks.  2*M/T with M the matched
\* characters and T the total length, e.g. "Stats"/"tasks": 2*3/10 = 0.6.
Labels == {"Main Menu", "Go to Task Bot", "Tasks", "Stats", "Back"}
Targets == {"main menu", "go to task", "tasks"}

similar(a, b) ==
    CASE a = "Main Menu"      /\ b = "main menu"  -> 1000
      [] a = "Main Menu"      /\ b = "go to task" -> 105
      [] a = "Main Menu"      /\ b = "tasks"      -> 142
      [] a = "Go to Task Bot" /\ b = "main menu"  -> 86
      [] a = "Go to Task Bot" /\ b = "go to task" -> 833
      [] a = "Go to Task Bot" /\ b = "tasks"      -> 421
      [] a = "Tasks"          /\ b = "main menu"  -> 142
      [] a = "Tasks"          /\ b = "go to task" -> 533
      [] a = "Tasks"          /\ b = "tasks"      -> 1000
      [] a = "Stats"          /\ b = "main menu"  -> 142
      [] a = "Stats"          /\ b = "go to task" -> 400
      [] a = "Stats"          /\ b = "tasks"      -> 600
      [] a = "Back"           /\ b = "main menu"  -> 153
      [] a = "Back"           /\ b = "go to task" -> 285
      [] a = "Back"           /\ b = "tasks"      -> 444
      [] OTHER -> 0

\* --------------------------------------------------------------- messages
\* A retrieved message: the markers its text contains, the number of bullet
\* markers in its text, its button grid (rows of labels), and what
\* event.click does on it when invoked: "ok", "rpc" (raises RPCError) or
\* "err" (raises another exception).
Msg(markers, bullets, buttons, click) ==
    [markers |-> markers, bullets |-> bullets, buttons |-> buttons, click |-> click]

\* The messages each step of navigate_to_tasks is tried on.  A step reads a
\* message through its marker and through click_button_by_relation for its
\* target only, so each step gets the messages that differ for it: no
\* buttons, buttons that do not match, a matching button whose click is
\* accepted, rejected (RPCError) or raises.
PlainMsg == Msg({}, 0, << >>, "ok")

ResetMsgs ==
    { PlainMsg,
      Msg({"welcome"}, 0, << <<"Go to Task Bot">>, <<"Back">> >>, "ok"),
      Msg({}, 0, << <<"Back", "Main Menu">> >>, "ok") }

WelcomeMsgs ==
    { PlainMsg,
      Msg({"welcome"}, 0, << <<"Go to Task Bot">>, <<"Back">> >>, "ok"),
      Msg({"welcome"}, 2, << <<"Back">> >>, "ok"),
      Msg({"welcome"}, 0, << <<"Go to Task Bot">> >>, "err") }

PanelMsgs ==
    { PlainMsg,
      Msg({"panel"}, 0, << <<"Back">> >>, "ok"),
      Msg({"panel"}, 0, << <<"Stats", "Tasks">> >>, "ok"),
      Msg({"panel"}, 0, << <<"Stats", "Tasks">> >>, "rpc") }

NavMsgs == ResetMsgs \cup WelcomeMsgs \cup PanelMsgs

\* Task lists of 0..MaxCount entries: what get_task_count reads.
ListMsgs == { Msg({"active"}, k, << >>, "ok") : k \in 0..MaxCount }

Msgs == NavMsgs \cup ListMsgs

\* What one iter_messages(TARGET_BOT, limit=n) call can yield: at most n
\* messages of msgs, most recent first.
Windows(msgs, n) == UNION { [1..k -> msgs] : k \in 0..n }

\* -------------------------------------------------- click_button_by_relation
\* The cells of a grid in row-major order, as <<row, col, label>> (0-based).
RECURSIVE Cells(_, _)
Cells(buttons, r) ==
    IF r > Len(buttons) THEN << >>
    ELSE [c \in 1..Len(buttons[r]) |-> <<r - 1, c - 1, buttons[r][c]>>]
         \o Cells(buttons, r + 1)

\* The scan of lines 139-148: best_score and best_position after the cells
\* from index i on, starting from best.
RECURSIVE Scan(_, _, _, _)
Scan(cells, i, target, best) ==
    IF i > Len(cells) THEN best
    ELSE LET score == similar(cells[i][3], target)
         IN  Scan(cells, i + 1, target,
                  IF score > best.score
                  THEN [score |-> score, pos |-> <<cells[i][1], cells[i][2]>>]
                  ELSE best)

BestMatch(buttons, target) ==
    Scan(Cells(buttons, 1), 1, target, [score |-> 0, pos |-> <<0, 0>>])

\* The grids the selector is examined on: up to MaxRows rows of up to MaxCols
\* buttons; a button without text reads as "" (line 144), which scores 0.
SelLabels == {"Tasks", "Stats", "Back", ""}
Rows(labels, n) == UNION { [1..k -> labels] : k \in 0..n }
SelGrids == UNION { [1..k -> Rows(SelLabels, MaxCols)] : k \in 0..MaxRows }

\* BestMatch of every grid of the model, computed once.
Grids == { m.buttons : m \in Msgs } \cup SelGrids
Best == [g \in Grids, t \in Targets |-> BestMatch(g, t)]

\* click_button_by_relation with the comparison of line 150 strict.
ClickAboveThreshold(event, target) ==
    IF event.buttons = << >>
    THEN [invoked |-> FALSE, res |-> "False", at |-> << >>]
    ELSE IF Best[event.buttons, target].score > threshold
         THEN [invoked |-> TRUE,
               res |-> CASE event.click = "ok"  -> "True"
                         [] event.click = "rpc" -> "False"
                         [] OTHER               -> "raise",
               at |-> Best[event.buttons, target].pos]
         ELSE [invoked |-> FALSE, res |-> "False", at |-> << >>]

\* click_button_by_relation(event, target_text): whether event.click was
\* invoked, the outcome: "True", "False" or "raise" (an exception other
\* than RPCError leaves the function), and the position event.click was
\* invoked at (<< >>: not invoked).
click_button_by_relation(event, target) ==
    IF event.buttons = << >>
    THEN [invoked |-> FALSE, res |-> "False", at |-> << >>]
    ELSE IF Best[event.buttons, target].score >= threshold
         THEN [invoked |-> TRUE,
               res |-> CASE event.click = "ok"  -> "True"
                         [] event.click = "rpc" -> "False"
                         [] OTHER               -> "raise",
               at |-> Best[event.buttons, target].pos]
         ELSE [invoked |-> FALSE, res |-> "False", at |-> << >>]

\* ------------------------------------------------------------------ state
VARIABLES
    pc,                      \* where the bot's coroutine stands
    client,                  \* the global client: "None", "connected", "disconnected"
    notification_entity,     \* "None", or the cached entity: "fresh" (resolved
                             \* under the session of the current client) or
                             \* "stale" (resolved under an earlier one)
    last_task_count,
    last_notification_time,  \* 0 is None
    NOTIFICATION_GROUP,      \* the form of GROUP_ID: "private", "public", "direct", ""
    BOT_OWNER_ID,            \* whether BOT_OWNER_ID is set
    nav,                     \* the running navigate_to_tasks call
    cyc,                     \* the running monitor cycle
    rc,                      \* the running (or last) reconnect call
    sentTo,                  \* the entity the last client.send_message(notification_entity, ..)
                             \* went to ("none": none since reconnect last returned True)
    reconnected_ok,          \* reconnect returned True and no client was constructed since
    sel,                     \* the click_button_by_relation call under examination
    orphaned,                \* a session that client no longer refers to is
                             \* still connected
    err                      \* the send_error_notification call under examination

vars == <<pc, client, notification_entity, last_task_count, last_notification_time,
          NOTIFICATION_GROUP, BOT_OWNER_ID, nav, cyc, rc, sentTo, reconnected_ok, sel,
          orphaned, err>>

Times == 1..MaxTime

NavInit ==
    [clicks |-> << >>, invoked |-> 0, retrievals |-> 0, result |-> "none",
     raised |-> FALSE, rejected |-> FALSE,
     menuMatch |-> FALSE, welcomeMatch |-> FALSE, welcomeFirst |-> FALSE,
     panelMatch |-> FALSE]

\* What the retrieval of get_task_count (line 205) yielded: whether it was
\* made, whether its most recent message carries the task-list marker, the
\* bullet markers of that message, and whether the retrieval raised.
NoExtract == [retrieved |-> FALSE, marker |-> FALSE, bullets |-> 0, raised |-> FALSE]

CycInit(prev, prevTime) ==
    [count |-> 0, prev |-> prev, prevTime |-> prevTime, dispatched |-> "none",
     attempted |-> FALSE, delivered |-> FALSE, reconnected |-> FALSE,
     failure |-> FALSE, extract |-> NoExtract]

\* No send_error_notification call examined yet.
NoErr == [called |-> FALSE]

\* No click_button_by_relation call examined yet.
NoSel == [called |-> FALSE]

RcInit ==
    [caller |-> "none", attempt |-> 0, tries |-> 0, unauth |-> 0, errors |-> 0,
     floods |-> 0, password |-> FALSE, resolved |-> FALSE, critical |-> FALSE,
     result |-> "none", delay |-> "none", report |-> "none"]

\* Lines 52-58, with the configuration read from the environment.
Init ==
    /\ pc = "start"
    /\ client = "None"
    /\ notification_entity = "None"
    /\ last_task_count = 0
    /\ last_notification_time = 0
    /\ NOTIFICATION_GROUP \in {"private", "public", "direct", ""}
    /\ BOT_OWNER_ID \in BOOLEAN
    /\ nav = NavInit
    /\ cyc = CycInit(0, 0)
    /\ rc = RcInit
    /\ sentTo = "none"
    /\ reconnected_ok = FALSE
    /\ sel = NoSel
    /\ orphaned = FALSE
    /\ err = NoErr

\* --------------------------------------------------- send_error_notification
\* The target of the group send of send_error_notification (lines 68-73):
\* the cached entity when there is one; both sends swallow their exceptions.
send_error_notification(entity, last) ==
    IF entity # "None" THEN entity ELSE last

\* Lines 307-313: reconnect disconnects the client when it is connected,
\* then binds client to a new session: whether the previous session is left
\* connected.
ReconnectLeaves(c) == FALSE

\* Lines 359-367: start_bot binds client to a new session whatever the state
\* of the previous one, which stays connected when it was.
StartLeaves(c) == c = "connected"

\* TelegramClient(...) constructs a new session: an entity resolved under the
\* previous one is no longer of the live session.
NewSession(entity) == IF entity = "fresh" THEN "stale" ELSE entity

\* ---------------------------------------------------------- navigate_to_tasks
Exposes(msg, target) ==
    /\ msg.buttons # << >>
    /\ Best[msg.buttons, target].score >= threshold

HasText(msg, marker) == marker \in msg.markers

\* A loop's outcome: the number of event.click invocations, whether a click
\* was accepted (event.click returned), whether the loop took its `if` branch
\* (ret: click_button_by_relation returned True), whether an invoked click
\* was not accepted, and whether an exception left the loop.  terr: the
\* transport raises once the window is exhausted.
LoopEnd(inv, accepted, ret, rejected, raised) ==
    [invoked |-> inv, accepted |-> accepted, ret |-> ret, rejected |-> rejected,
     raised |-> raised]

Accepted(event, r) == r.invoked /\ event.click = "ok"

\* Lines 168-172: click "main menu" on the first message where that works.
RECURSIVE ResetLoop(_, _, _, _, _)
ResetLoop(win, i, terr, inv, rej) ==
    IF i > Len(win) THEN LoopEnd(inv, FALSE, FALSE, rej, terr)
    ELSE LET r == click_button_by_relation(win[i], "main menu")
             n == IF r.invoked THEN inv + 1 ELSE inv
         IN  CASE r.res = "True"  -> LoopEnd(n, Accepted(win[i], r), TRUE, rej, FALSE)
               [] r.res = "raise" -> LoopEnd(n, FALSE, FALSE, TRUE, TRUE)
               [] OTHER -> ResetLoop(win, i + 1, terr, n, rej \/ r.invoked)

\* WelcomeLoop without the break of line 180: every message with the welcome
\* marker is tried until a click returns True.
RECURSIVE WelcomeLoopTriesAll(_, _, _)
WelcomeLoopTriesAll(win, i, terr) ==
    IF i > Len(win) THEN LoopEnd(0, FALSE, FALSE, FALSE, terr)
    ELSE IF HasText(win[i], "welcome")
         THEN LET r == click_button_by_relation(win[i], "go to task")
                  n == IF r.invoked THEN 1 ELSE 0
              IN  IF r.res = "False"
                  THEN WelcomeLoopTriesAll(win, i + 1, terr)
                  ELSE LoopEnd(n, Accepted(win[i], r), r.res = "True",
                               r.invoked /\ r.res # "True", r.res = "raise")
         ELSE WelcomeLoopTriesAll(win, i + 1, terr)

\* Lines 175-180: the first message with the welcome marker is tried, then break.
RECURSIVE WelcomeLoop(_, _, _)
WelcomeLoop(win, i, terr) ==
    IF i > Len(win) THEN LoopEnd(0, FALSE, FALSE, FALSE, terr)
    ELSE IF HasText(win[i], "welcome")
         THEN LET r == click_button_by_relation(win[i], "go to task")
                  n == IF r.invoked THEN 1 ELSE 0
              IN  LoopEnd(n, Accepted(win[i], r), r.res = "True",
                          r.invoked /\ r.res # "True", r.res = "raise")
         ELSE WelcomeLoop(win, i + 1, terr)

\* PanelLoop with the value of click_button_by_relation ignored: the marker
\* alone ends the call with True.
RECURSIVE PanelLoopIgnoresClick(_, _, _, _, _)
PanelLoopIgnoresClick(win, i, terr, inv, rej) ==
    IF i > Len(win) THEN LoopEnd(inv, FALSE, FALSE, rej, terr)
    ELSE IF HasText(win[i], "panel")
         THEN LET r == click_button_by_relation(win[i], "tasks")
                  n == IF r.invoked THEN inv + 1 ELSE inv
              IN  CASE r.res = "raise" -> LoopEnd(n, FALSE, FALSE, TRUE, TRUE)
                    [] OTHER -> LoopEnd(n, Accepted(win[i], r), TRUE,
                                        rej \/ (r.invoked /\ r.res # "True"), FALSE)
         ELSE PanelLoopIgnoresClick(win, i + 1, terr, inv, rej)

\* PanelLoop with the break of the welcome step: only the first message with
\* the task-panel marker is tried.
RECURSIVE PanelLoopBreaksAfterFirst(_, _, _, _, _)
PanelLoopBreaksAfterFirst(win, i, terr, inv, rej) ==
    IF i > Len(win) THEN LoopEnd(inv, FALSE, FALSE, rej, terr)
    ELSE IF HasText(win[i], "panel")
         THEN LET r == click_button_by_relation(win[i], "tasks")
                  n == IF r.invoked THEN inv + 1 ELSE inv
              IN  LoopEnd(n, Accepted(win[i], r), r.res = "True",
                          rej \/ (r.invoked /\ r.res # "True"), r.res = "raise")
         ELSE PanelLoopBreaksAfterFirst(win, i + 1, terr, inv, rej)

\* Lines 183-188: every message with the task-panel marker is tried until a
\* click returns True.
RECURSIVE PanelLoop(_, _, _, _, _)
PanelLoop(win, i, terr, inv, rej) ==
    IF i > Len(win) THEN LoopEnd(inv, FALSE, FALSE, rej, terr)
    ELSE IF HasText(win[i], "panel")
         THEN LET r == click_button_by_relation(win[i], "tasks")
                  n == IF r.invoked THEN inv + 1 ELSE inv
              IN  CASE r.res = "True"  -> LoopEnd(n, Accepted(win[i], r), TRUE, rej, FALSE)
                    [] r.res = "raise" -> LoopEnd(n, FALSE, FALSE, TRUE, TRUE)
                    [] OTHER -> PanelLoop(win, i + 1, terr, n, rej \/ r.invoked)
         ELSE PanelLoop(win, i + 1, terr, inv, rej)

\* The most recent message of the window with the marker exposes the button.
FirstMarked(win, marker, target) ==
    \E i \in 1..Len(win) :
        /\ HasText(win[i], marker)
        /\ \A j \in 1..(i - 1) : ~HasText(win[j], marker)
        /\ Exposes(win[i], target)

AnyMarked(win, marker, target) ==
    \E i \in 1..Len(win) : HasText(win[i], marker) /\ Exposes(win[i], target)

\* The value navigate_to_tasks hands to its caller when an exception reaches
\* line 193: the handler reports it and returns False.
NavExceptResult == "False"

\* nav after a loop: the accepted clicks, and the call's result when the loop
\* ended it (an exception, or the panel step: last).
NavAfter(r, target, last) ==
    [nav EXCEPT
        !.clicks = IF r.accepted THEN Append(@, target) ELSE @,
        !.invoked = @ + r.invoked,
        !.retrievals = @ + 1,
        !.rejected = @ \/ r.rejected \/ r.raised,
        !.raised = r.raised,
        !.result = IF r.raised THEN NavExceptResult
                   ELSE IF last THEN (IF r.ret THEN "True" ELSE "False")
                   ELSE "none"]

\* get_task_count, lines 202-203 and 213-217: the count is 0 when navigation
\* returned False; an exception out of navigate_to_tasks is reported, and the
\* count is 0 too.
NavDone(n, r) ==
    /\ nav' = n
    /\ sentTo' = IF r.raised
                 THEN send_error_notification(notification_entity, sentTo)
                 ELSE sentTo
    /\ IF n.result = "True"
       THEN /\ pc' = "extract"
            /\ cyc' = cyc
       ELSE /\ pc' = "compare"
            /\ cyc' = [cyc EXCEPT !.count = 0,
                                  !.failure = @ \/ r.raised \/ n.result = "raise"]

NavFrame ==
    UNCHANGED <<client, notification_entity, last_task_count, last_notification_time,
                NOTIFICATION_GROUP, BOT_OWNER_ID, rc, reconnected_ok, sel,
                   orphaned, err>>

NavReset ==
    /\ pc = "nav_reset"
    /\ \E win \in Windows(ResetMsgs, NavLimit), terr \in BOOLEAN :
         LET r == ResetLoop(win, 1, terr, 0, FALSE)
             n == [NavAfter(r, "main menu", FALSE) EXCEPT
                      !.menuMatch = \E i \in 1..Len(win) : Exposes(win[i], "main menu")]
         IN  IF r.raised
             THEN NavDone(n, r)
             ELSE /\ nav' = n
                  /\ pc' = "nav_welcome"
                  /\ UNCHANGED <<cyc, sentTo>>
    /\ NavFrame

NavWelcome ==
    /\ pc = "nav_welcome"
    /\ \E win \in Windows(WelcomeMsgs, NavLimit), terr \in BOOLEAN :
         LET r == WelcomeLoop(win, 1, terr)
             n == [NavAfter(r, "go to task", FALSE) EXCEPT
                      !.welcomeMatch = AnyMarked(win, "welcome", "go to task"),
                      !.welcomeFirst = FirstMarked(win, "welcome", "go to task")]
         IN  IF r.raised
             THEN NavDone(n, r)
             ELSE /\ nav' = n
                  /\ pc' = "nav_panel"
                  /\ UNCHANGED <<cyc, sentTo>>
    /\ NavFrame

NavPanel ==
    /\ pc = "nav_panel"
    /\ \E win \in Windows(PanelMsgs, NavLimit), terr \in BOOLEAN :
         LET r == PanelLoop(win, 1, terr, 0, FALSE)
             n == [NavAfter(r, "tasks", TRUE) EXCEPT
                      !.panelMatch = AnyMarked(win, "panel", "tasks")]
         IN  NavDone(n, r)
    /\ NavFrame

\* ------------------------------------------------------------- get_task_count
\* Lines 205-211: the bullet count of the most recent message when it carries
\* the task-list marker, else 0; raised: the retrieval raised (lines 213-217).
\* CountLoop without the test of line 206: the bullets of the most recent
\* message are counted whatever its text.
RECURSIVE CountLoopAnyText(_, _, _)
CountLoopAnyText(win, i, terr) ==
    IF i > Len(win) THEN [count |-> 0, raised |-> terr]
    ELSE [count |-> win[i].bullets, raised |-> FALSE]

RECURSIVE CountLoop(_, _, _)
CountLoop(win, i, terr) ==
    IF i > Len(win) THEN [count |-> 0, raised |-> terr]
    ELSE IF HasText(win[i], "active")
         THEN [count |-> win[i].bullets, raised |-> FALSE]
         ELSE CountLoop(win, i + 1, terr)

Extract ==
    /\ pc = "extract"
    /\ \E win \in Windows(Msgs, CountLimit), terr \in BOOLEAN :
         LET r == CountLoop(win, 1, terr)
         IN  /\ cyc' = [cyc EXCEPT
                          !.count = r.count,
                          !.failure = @ \/ r.raised,
                          !.extract =
                              [retrieved |-> TRUE,
                               marker |-> win # << >> /\ HasText(win[1], "active"),
                               bullets |-> IF win # << >> THEN win[1].bullets ELSE 0,
                               raised |-> r.raised]]
             /\ sentTo' = IF r.raised
                          THEN send_error_notification(notification_entity, sentTo)
                          ELSE sentTo
    /\ pc' = "compare"
    /\ UNCHANGED nav
    /\ NavFrame

\* ------------------------------------------------ resolve_notification_entity
\* How the remote side answers a resolution, by the form of NOTIFICATION_GROUP:
\* "ok" (the join or the lookup succeeds), "already_ok" and "already_fail"
\* (UserAlreadyParticipantError, then get_entity succeeds or raises), "fail"
\* (the join or the lookup raises).  get_entity("") always raises.
ResolveOutcomes(form) ==
    CASE form = "private" -> {"ok", "already_ok", "already_fail", "fail"}
      [] form = ""        -> {"fail"}
      [] OTHER            -> {"ok", "fail"}

\* The entity a failed join of a private invite link leaves cached (lines
\* 104-107 return False without assigning notification_entity).
PrivateJoinFailed(entity) == entity

\* resolve_notification_entity: its return value, the cached entity after it,
\* and the target of the last group send (the error report of lines 106 and
\* 130 goes out before line 131 clears the cache).
resolve_notification_entity(form, out, entity, last) ==
    CASE out \in {"ok", "already_ok"} ->
            [ret |-> TRUE, entity |-> "fresh", sentTo |-> last]
      [] form = "private" /\ out = "fail" ->
            [ret |-> FALSE, entity |-> PrivateJoinFailed(entity),
             sentTo |-> send_error_notification(entity, last)]
      [] OTHER ->
            [ret |-> FALSE, entity |-> "None",
             sentTo |-> send_error_notification(entity, last)]

\* ----------------------------------------------------------- send_notification
\* send_notification(msg): resolves when nothing is cached (lines 223-226),
\* then sends; sendOk: client.send_message is accepted.  called: the send
\* was made.
send_notification(form, out, sendOk, entity, last) ==
    LET r == IF entity = "None"
             THEN resolve_notification_entity(form, out, entity, last)
             ELSE [ret |-> TRUE, entity |-> entity, sentTo |-> last]
    IN  IF ~r.ret
        THEN [ret |-> FALSE, entity |-> r.entity, sentTo |-> r.sentTo, called |-> FALSE]
        ELSE [ret |-> sendOk, entity |-> r.entity, sentTo |-> r.entity, called |-> TRUE]

\* -------------------------------------------------------------------- monitor
\* MonitorBranch with the elif of line 280 reduced to count == 0.
MonitorBranchNoPrevCheck(count, last) ==
    IF count > 0 /\ count # last THEN "available"
    ELSE IF count = 0 THEN "cleared"
    ELSE "none"

\* Lines 267 and 280: which notification the cycle is about.
MonitorBranch(count, last) ==
    IF count > 0 /\ count # last THEN "available"
    ELSE IF count = 0 /\ last > 0 THEN "cleared"
    ELSE "none"

\* AvailableMessageRaises with the f-string reading the name line 42 binds.
AvailableMessageReadsBoundName == ~NameDefined("TARGET_BOT")

\* Lines 268-274: the f-string of the 'available' message reads TARGET_Bot.
AvailableMessageRaises == ~NameDefined("TARGET_Bot")

\* navigate_to_tasks and get_task_count have returned: their call records
\* are dropped with the comparison.
MonitorFrame ==
    /\ nav' = NavInit
    /\ UNCHANGED <<client, NOTIFICATION_GROUP, BOT_OWNER_ID, rc, reconnected_ok, sel,
                   orphaned, err>>

\* Lines 265-289, after get_task_count returned cyc.count.  The branches
\* that call send_notification are never taken (line 272 raises first, and
\* last_task_count stays 0); lines 277-278 assign last_notification_time,
\* then last_task_count, in two statements.
Compare ==
    /\ pc = "compare"
    /\ LET branch == MonitorBranch(cyc.count, last_task_count)
           returned == [cyc EXCEPT !.extract = NoExtract]
       IN  IF branch = "available" /\ AvailableMessageRaises
           THEN /\ pc' = "handler"
                /\ cyc' = returned
                /\ UNCHANGED <<notification_entity, last_task_count,
                               last_notification_time, sentTo>>
           ELSE IF branch = "none"
           THEN /\ pc' = "sleep"
                /\ cyc' = returned
                /\ UNCHANGED <<notification_entity, last_task_count,
                               last_notification_time, sentTo>>
           ELSE \E out \in ResolveOutcomes(NOTIFICATION_GROUP), sendOk \in BOOLEAN,
                   now \in Times :
                  LET s == send_notification(NOTIFICATION_GROUP, out, sendOk,
                                             notification_entity, sentTo)
                  IN  /\ pc' = "sleep"
                      /\ notification_entity' = s.entity
                      /\ sentTo' = s.sentTo
                      /\ cyc' = [returned EXCEPT !.attempted = TRUE,
                                            !.dispatched = IF s.called THEN branch ELSE @,
                                            !.delivered = s.ret]
                      /\ last_task_count' =
                            IF s.ret THEN cyc.count ELSE last_task_count
                      /\ last_notification_time' =
                            IF s.ret /\ branch = "available" THEN now
                            ELSE last_notification_time
    /\ MonitorFrame

\* Lines 291-295: the cycle raised; report it and call reconnect.
Handler ==
    /\ pc = "handler"
    /\ sentTo' = send_error_notification(notification_entity, sentTo)
    /\ cyc' = [cyc EXCEPT !.reconnected = TRUE]
    /\ rc' = [RcInit EXCEPT !.caller = "monitor"]
    /\ pc' = "reconnect"
    /\ UNCHANGED <<client, notification_entity, last_task_count, last_notification_time,
                   NOTIFICATION_GROUP, BOT_OWNER_ID, nav, reconnected_ok, sel,
                   orphaned, err>>

\* Line 297, and the next turn of the while loop.
Sleep ==
    /\ pc = "sleep"
    /\ pc' = "nav_reset"
    /\ nav' = NavInit
    /\ cyc' = CycInit(last_task_count, last_notification_time)
    /\ rc' = RcInit
    /\ UNCHANGED <<client, notification_entity, last_task_count, last_notification_time,
                   NOTIFICATION_GROUP, BOT_OWNER_ID, sentTo, reconnected_ok, sel,
                   orphaned, err>>

\* ------------------------------------------------------------------ reconnect
\* How one attempt (lines 304-326) ends: "ok"; "unauthorized" (line 317);
\* "flood" (FloodWaitError); "password" (SessionPasswordNeededError); "error"
\* (any other exception).
AttemptOutcomes == {"ok", "unauthorized", "flood", "password", "error"}

\* RetriesLeft with the bound off by one.
RetriesLeftOffByOne(attempt) == attempt <= max_retries

\* for attempt in range(max_retries): the loop has another turn.
RetriesLeft(attempt) == attempt < max_retries

\* The loop variable after an attempt that did not return: every turn of the
\* for loop, a flood-wait included, takes the next value of the range.
NextAttempt(outcome, attempt) == attempt + 1

\* ReturnTo with a False from reconnect ending the monitor.
ReturnToLeavesOnFailure(caller, result) ==
    IF caller = "monitor" /\ result THEN "sleep" ELSE "start"

\* Where reconnect's caller goes on: monitor ignores the value and sleeps
\* (lines 295-297); start_bot starts its while loop again, after
\* sleep(retry_delay) when the value is False (lines 402-405).
ReturnTo(caller, result) ==
    IF caller = "monitor" THEN "sleep" ELSE "start"

\* Broken with the break of line 339 missing: the loop goes on.
NeverBroken(r) == FALSE

\* The for loop was left by the break of line 339.
Broken(r) == r.password

\* The sleep that ends a turn of reconnect's loop: sleep(wait_time) after a
\* FloodWaitError (line 333), sleep(retry_delay) after any other exception
\* (line 344); the `continue` of line 319 and the `break` of line 339 sleep
\* nothing.
Delay(outcome) ==
    CASE outcome = "flood" -> "wait_time"
      [] outcome = "error" -> "retry_delay"
      [] OTHER -> "none"

ReconnectAttempt ==
    /\ pc = "reconnect"
    /\ RetriesLeft(rc.attempt)
    /\ ~Broken(rc)
    /\ \E outcome \in AttemptOutcomes, out \in ResolveOutcomes(NOTIFICATION_GROUP) :
         LET stale == NewSession(notification_entity)
             r == resolve_notification_entity(NOTIFICATION_GROUP, out, stale, sentTo)
             tried == [rc EXCEPT !.tries = @ + 1,
                                 !.attempt = NextAttempt(outcome, @),
                                 !.delay = Delay(outcome)]
         IN  /\ client' = IF outcome = "error" THEN "disconnected" ELSE "connected"
             /\ orphaned' = (orphaned \/ ReconnectLeaves(client))
             /\ CASE outcome = "ok" ->
                       /\ rc' = [rc EXCEPT !.tries = @ + 1, !.resolved = TRUE,
                                           !.result = "True",
                                           !.delay = Delay(outcome)]
                       /\ notification_entity' = r.entity
                       /\ sentTo' = "none"
                       /\ reconnected_ok' = TRUE
                       /\ pc' = ReturnTo(rc.caller, TRUE)
                  [] outcome = "unauthorized" ->
                       /\ out = CHOOSE o \in ResolveOutcomes(NOTIFICATION_GROUP) : TRUE
                       /\ rc' = [tried EXCEPT !.unauth = @ + 1]
                       /\ notification_entity' = stale
                       /\ sentTo' = sentTo
                       /\ reconnected_ok' = FALSE
                       /\ pc' = pc
                  [] outcome = "flood" ->
                       /\ out = CHOOSE o \in ResolveOutcomes(NOTIFICATION_GROUP) : TRUE
                       /\ rc' = [tried EXCEPT !.floods = @ + 1, !.report = "flood"]
                       /\ notification_entity' = stale
                       /\ sentTo' = send_error_notification(stale, sentTo)
                       /\ reconnected_ok' = FALSE
                       /\ pc' = pc
                  [] outcome = "password" ->
                       /\ out = CHOOSE o \in ResolveOutcomes(NOTIFICATION_GROUP) : TRUE
                       /\ rc' = [rc EXCEPT !.tries = @ + 1, !.password = TRUE,
                                           !.delay = Delay(outcome),
                                           !.report = "password"]
                       /\ notification_entity' = stale
                       /\ sentTo' = send_error_notification(stale, sentTo)
                       /\ reconnected_ok' = FALSE
                       /\ pc' = pc
                  [] OTHER ->
                       /\ out = CHOOSE o \in ResolveOutcomes(NOTIFICATION_GROUP) : TRUE
                       /\ rc' = [tried EXCEPT !.errors = @ + 1]
                       /\ notification_entity' = stale
                       /\ sentTo' = sentTo
                       /\ reconnected_ok' = FALSE
                       /\ pc' = pc
    /\ UNCHANGED <<last_task_count, last_notification_time, NOTIFICATION_GROUP,
                   BOT_OWNER_ID, nav, cyc, sel, err>>

\* Lines 346-349: the loop ended without a return.
ReconnectFailed ==
    /\ pc = "reconnect"
    /\ ~RetriesLeft(rc.attempt) \/ Broken(rc)
    /\ rc' = [rc EXCEPT !.critical = TRUE, !.result = "False",
                        !.report = "critical"]
    /\ sentTo' = send_error_notification(notification_entity, sentTo)
    /\ pc' = ReturnTo(rc.caller, FALSE)
    /\ UNCHANGED <<client, notification_entity, last_task_count, last_notification_time,
                   NOTIFICATION_GROUP, BOT_OWNER_ID, nav, cyc, reconnected_ok, sel,
                   orphaned, err>>

\* ------------------------------------------------------------------ start_bot
\* How one turn of start_bot's loop (lines 356-382) ends before monitor():
\* "ok"; "flood"; "password"; "rpc" (RPCError, ConnectionError, OSError);
\* "other" (any other exception).
StartOutcomes == {"ok", "flood", "password", "rpc", "other"}

StartBot ==
    /\ pc = "start"
    /\ \E outcome \in StartOutcomes, out \in ResolveOutcomes(NOTIFICATION_GROUP),
          out2 \in ResolveOutcomes(NOTIFICATION_GROUP), sendOk \in BOOLEAN :
         LET stale == NewSession(notification_entity)
             r == IF NOTIFICATION_GROUP # ""
                  THEN resolve_notification_entity(NOTIFICATION_GROUP, out, stale, sentTo)
                  ELSE [ret |-> FALSE, entity |-> stale, sentTo |-> sentTo]
             s == IF NOTIFICATION_GROUP # ""
                  THEN send_notification(NOTIFICATION_GROUP, out2, sendOk, r.entity, r.sentTo)
                  ELSE [ret |-> FALSE, entity |-> r.entity, sentTo |-> r.sentTo,
                        called |-> FALSE]
         IN  /\ reconnected_ok' = FALSE
             /\ orphaned' = (orphaned \/ StartLeaves(client))
             /\ CASE outcome = "ok" ->
                       /\ client' = "connected"
                       /\ notification_entity' = s.entity
                       /\ sentTo' = s.sentTo
                       /\ pc' = "nav_reset"
                       /\ rc' = RcInit
                  [] outcome = "rpc" ->
                       /\ out = CHOOSE o \in ResolveOutcomes(NOTIFICATION_GROUP) : TRUE
                       /\ out2 = out /\ sendOk
                       /\ client' = "disconnected"
                       /\ notification_entity' = stale
                       /\ sentTo' = send_error_notification(stale, sentTo)
                       /\ pc' = "reconnect"
                       /\ rc' = [RcInit EXCEPT !.caller = "start_bot"]
                  [] OTHER ->
                       /\ out = CHOOSE o \in ResolveOutcomes(NOTIFICATION_GROUP) : TRUE
                       /\ out2 = out /\ sendOk
                       /\ client' = "disconnected"
                       /\ notification_entity' = stale
                       /\ sentTo' = send_error_notification(stale, sentTo)
                       /\ pc' = "start"
                       /\ rc' = RcInit
    /\ nav' = NavInit
    /\ cyc' = CycInit(last_task_count, last_notification_time)
    /\ UNCHANGED <<last_task_count, last_notification_time, NOTIFICATION_GROUP,
                   BOT_OWNER_ID, sel, err>>

\* -------------------------------------------------------------- specification
Next ==
    \/ StartBot
    \/ NavReset
    \/ NavWelcome
    \/ NavPanel
    \/ Extract
    \/ Compare
    \/ Handler
    \/ Sleep
    \/ ReconnectAttempt
    \/ ReconnectFailed

Spec == Init /\ [][Next]_vars

\* The event loop keeps running the coroutine: every sleep ends and every
\* awaited call returns or raises.
FairSpec == Spec /\ WF_vars(Next)

\* ------------------------------------- send_error_notification on its own
\* One send of send_error_notification, in its own try: "skipped" (the
\* destination is not set), "sent", or "caught" (client.send_message, or
\* int(BOT_OWNER_ID), raised and the except clause logged it).
TrySend(configured, ok) ==
    IF ~configured THEN "skipped" ELSE IF ok THEN "sent" ELSE "caught"

\* send_error_notification with both sends in one try: a failure of the
\* group send skips the owner.
ErrorSendsOneTry(entity, owner, groupOk, ownerOk) ==
    [group |-> TrySend(entity # "None", groupOk),
     owner |-> IF entity # "None" /\ ~groupOk THEN "skipped"
               ELSE TrySend(owner, ownerOk),
     raised |-> FALSE]

\* Lines 63-81: the group send (lines 68-73), then the owner send (lines
\* 76-81); raised: an exception leaves the function.
ErrorSends(entity, owner, groupOk, ownerOk) ==
    [group |-> TrySend(entity # "None", groupOk),
     owner |-> TrySend(owner, ownerOk),
     raised |-> FALSE]

\* Whether client.send_message can be accepted: only on a connected client
\* (on None it raises AttributeError, on a disconnected one ConnectionError).
SendOutcomes(c) == IF c = "connected" THEN BOOLEAN ELSE {FALSE}

Report ==
    /\ ~err.called
    /\ \E groupOk \in SendOutcomes(client), ownerOk \in SendOutcomes(client) :
         err' = [called |-> TRUE,
                 sends |-> ErrorSends(notification_entity, BOT_OWNER_ID,
                                      groupOk, ownerOk)]
    /\ UNCHANGED <<pc, client, notification_entity, last_task_count,
                   last_notification_time, NOTIFICATION_GROUP, BOT_OWNER_ID, nav,
                   cyc, rc, sentTo, reconnected_ok, sel, orphaned>>

\* Any state of the client and of the cached entity a call can find.
ErrInit ==
    /\ pc = "start"
    /\ client \in {"None", "connected", "disconnected"}
    /\ notification_entity \in {"None", "fresh", "stale"}
    /\ last_task_count = 0
    /\ last_notification_time = 0
    /\ NOTIFICATION_GROUP \in {"private", "public", "direct", ""}
    /\ BOT_OWNER_ID \in BOOLEAN
    /\ nav = NavInit
    /\ cyc = CycInit(0, 0)
    /\ rc = RcInit
    /\ sentTo = "none"
    /\ reconnected_ok = FALSE
    /\ sel = NoSel
    /\ orphaned = FALSE
    /\ err = NoErr

ErrSpec == ErrInit /\ [][Report]_vars

\* ------------------------------------------------- the selector on its own
\* click_button_by_relation applied to a message with any grid of SelGrids,
\* for any target phrase and any behaviour of event.click.
Select ==
    /\ ~sel.called
    /\ \E g \in SelGrids, t \in Targets, click \in {"ok", "rpc", "err"} :
         LET event == Msg({}, 0, g, click)
         IN  sel' = [called |-> TRUE, buttons |-> g, target |-> t,
                     r |-> click_button_by_relation(event, t)]
    /\ UNCHANGED <<pc, client, notification_entity, last_task_count,
                   last_notification_time, NOTIFICATION_GROUP, BOT_OWNER_ID, nav,
                   cyc, rc, sentTo, reconnected_ok, orphaned, err>>

\* The environment without a notification group and without an owner: the
\* selector reads neither.
SelInit == Init /\ NOTIFICATION_GROUP = "" /\ ~BOT_OWNER_ID

SelSpec == SelInit /\ [][Select]_vars

\* --------------------------------------------------------------------- claims
\* A monitor cycle is over: the loop stands at line 297.
CycleDone == pc = "sleep"

\* navigate_to_tasks has returned to get_task_count.
NavReturned == pc \in {"extract", "compare"} /\ nav.result # "none"

Range(seq) == { seq[i] : i \in 1..Len(seq) }

\* C1: with every delivery succeeding, a cycle dispatches 'available' exactly
\* when count > 0 and count # last_task_count, 'cleared' exactly when
\* count = 0 and last_task_count > 0, and nothing otherwise.
C1_NotifiesExactlyOnTransitions ==
    (CycleDone /\ (cyc.attempted => cyc.delivered)) =>
        /\ cyc.dispatched = "available" <=> (cyc.count > 0 /\ cyc.count # cyc.prev)
        /\ cyc.dispatched = "cleared" <=> (cyc.count = 0 /\ cyc.prev > 0)

\* C2: MonitorState changes only in a cycle whose send_notification returned
\* success, and a cycle that observes a count the state does not hold yet
\* attempts the notification (again).
C2_AdvancesOnlyOnDeliveryAndRetries ==
    CycleDone =>
        /\ (last_task_count # cyc.prev \/ last_notification_time # cyc.prevTime)
               => cyc.delivered
        /\ (cyc.count > 0 /\ cyc.count # cyc.prev) => cyc.attempted

\* C3: a cycle whose observed count equals last_task_count dispatches nothing,
\* triggers no reconnect and leaves last_task_count and
\* last_notification_time as they were.
C3_UnchangedCountIsNoOp ==
    (CycleDone /\ cyc.count = cyc.prev) =>
        /\ cyc.dispatched = "none"
        /\ ~cyc.attempted
        /\ ~cyc.reconnected
        /\ last_task_count = cyc.prev
        /\ last_notification_time = cyc.prevTime

C3_Witness == CycleDone /\ cyc.count = cyc.prev /\ cyc.count = last_task_count

\* C4: a cycle in which navigation, count extraction or message retrieval
\* raised runs the reconnect procedure.
C4_FailureTriggersReconnect ==
    (CycleDone /\ cyc.failure) => cyc.reconnected

\* C5: one reconnect call makes at most max_retries connection attempts; it
\* goes on while only authorization failures, fewer than max_retries, have
\* happened; it returns True only having called resolve_notification_entity;
\* it returns False, with the critical error reported, only at the bound (or
\* on a password error), and always after max_retries authorization failures.
C5_ReconnectBounded ==
    /\ rc.tries <= max_retries
    /\ rc.unauth <= rc.tries
    /\ (rc.result = "True" => rc.resolved /\ ~rc.critical)
    /\ (rc.result = "False" => rc.critical /\ (rc.password \/ rc.tries = max_retries))
    /\ (pc = "reconnect" /\ rc.unauth = rc.tries /\ rc.tries < max_retries)
           => RetriesLeft(rc.attempt)
    /\ (rc.unauth = max_retries) =>
           \/ pc = "reconnect" /\ ~RetriesLeft(rc.attempt)
           \/ rc.result = "False" /\ rc.critical

C5_Witness ==
    /\ rc.result = "True"
    /\ rc.unauth = max_retries - 1
    /\ rc.tries = max_retries
    /\ rc.resolved

\* C6: flood-waits do not consume the retry bound: a reconnect call gives up
\* (other than on a password error) only after max_retries real failures.
C6_FloodWaitNotCounted ==
    (rc.result = "False" /\ ~rc.password) => rc.unauth + rc.errors >= max_retries

\* C7: whenever reconnect exhausts its retry bound, start_bot eventually
\* starts the startup sequence again.
C7_ExhaustedReconnectRestarts ==
    (rc.result = "False" /\ rc.tries = max_retries) ~> (pc = "start")

\* C8: after a successful reconnect no message is sent to a notification
\* target resolved under the previous session.
C8_NoSendToStaleTarget ==
    reconnected_ok => sentTo # "stale"

\* C9: navigate_to_tasks returns True exactly when the 'tasks' click of its
\* third retrieval was accepted on a message with the task-panel marker; it
\* returns False when the marker or the button is absent and when an
\* exception was raised; nothing is raised to its caller.
C9_NavigationResult ==
    NavReturned =>
        /\ nav.result \in {"True", "False"}
        /\ nav.result = "True" <=> "tasks" \in Range(nav.clicks)
        /\ nav.result = "True" => (nav.retrievals = 3 /\ nav.panelMatch /\ ~nav.raised)
        /\ (nav.raised \/ ~nav.panelMatch) => nav.result = "False"

C9_Witness ==
    /\ NavReturned
    /\ nav.result = "True"
    /\ nav.rejected
    /\ nav.invoked = 2

\* C10 as stated: no main-menu button in the window, a welcome message with a
\* matching 'go to task' button, then a task-panel message with a matching
\* 'tasks' button: navigation succeeds with exactly 2 invoked clicks (read
\* with every invoked click accepted and no retrieval raising).
C10_TwoClicksOriginal ==
    (NavReturned /\ ~nav.menuMatch /\ nav.welcomeMatch /\ nav.panelMatch
        /\ ~nav.rejected) =>
        /\ nav.result = "True"
        /\ nav.invoked = 2
        /\ nav.clicks = <<"go to task", "tasks">>

\* C10 amended: the same when it is the most recent welcome message that
\* has the matching button (every invoked click accepted, no retrieval
\* raising).
C10_TwoClicks ==
    (NavReturned /\ ~nav.menuMatch /\ nav.welcomeFirst /\ nav.panelMatch
        /\ ~nav.rejected) =>
        /\ nav.result = "True"
        /\ nav.invoked = 2
        /\ nav.clicks = <<"go to task", "tasks">>

C10_Witness ==
    /\ NavReturned
    /\ ~nav.menuMatch /\ nav.welcomeFirst /\ nav.panelMatch /\ ~nav.rejected
    /\ nav.result = "True"
    /\ nav.invoked = 2

\* C12: get_task_count returns the bullet count of the single most recent
\* message when navigation returned True and that message carries the
\* task-list marker; it returns 0 when navigation returned False (nothing is
\* retrieved then), when the message lacks the marker whatever its bullets,
\* when nothing is retrieved and when the retrieval raises.
C12_TaskCount ==
    pc = "compare" =>
        /\ cyc.extract.retrieved <=> nav.result = "True"
        /\ cyc.count = IF nav.result = "True" /\ cyc.extract.marker
                           /\ ~cyc.extract.raised
                       THEN cyc.extract.bullets
                       ELSE 0

\* Navigation succeeded and the most recent message has bullets but no
\* task-list marker: the count is 0.
C12_Witness ==
    /\ pc = "compare"
    /\ nav.result = "True"
    /\ ~cyc.extract.marker
    /\ cyc.extract.bullets > 0
    /\ cyc.count = 0

\* Control is inside monitor's while loop (reconnect called from its handler
\* included).
InMonitor ==
    \/ pc \in {"nav_reset", "nav_welcome", "nav_panel", "extract", "compare",
               "handler", "sleep"}
    \/ pc = "reconnect" /\ rc.caller = "monitor"

\* C13: control never leaves the monitor loop; a cycle that raised runs
\* reconnect and, whether that returns True or False, reaches the pause of
\* line 297, and every pause is followed by the next cycle.
C13_MonitorNeverStops ==
    /\ [][InMonitor => InMonitor']_vars
    /\ [](rc.caller = "monitor" /\ rc.result # "none" => pc = "sleep")
    /\ (pc = "handler") ~> (pc = "sleep")
    /\ (pc = "sleep") ~> (pc = "nav_reset")

\* A cycle raised, its reconnect used up its attempts, and the loop stands at
\* the pause.
C13_Witness ==
    /\ pc = "sleep"
    /\ cyc.reconnected
    /\ rc.caller = "monitor"
    /\ rc.result = "False"
    /\ rc.tries = max_retries

\* C15: no session is left connected when client is bound to a new one: at
\* most one session is live at any time.
C15_OneLiveSession == ~orphaned

\* C16: a call of send_error_notification attempts the owner send exactly
\* when BOT_OWNER_ID is set, whether the group send was skipped (no entity),
\* accepted or failed; the group send is attempted exactly when an entity is
\* cached; no exception leaves the call.
C16_OwnerAlwaysTried ==
    err.called =>
        /\ BOT_OWNER_ID <=> err.sends.owner # "skipped"
        /\ notification_entity # "None" <=> err.sends.group # "skipped"
        /\ ~err.sends.raised

\* The group send failed and the owner send was made and accepted.
C16_Witness ==
    /\ err.called
    /\ err.sends.group = "caught"
    /\ err.sends.owner = "sent"

\* C17: within one reconnect call, when an attempt has been made and the
\* next one is about to start, a delay (retry_delay or the flood wait) has
\* elapsed since the previous attempt ended.
C17_DelayBetweenAttempts ==
    (pc = "reconnect" /\ rc.tries > 0 /\ RetriesLeft(rc.attempt) /\ ~rc.password)
        => rc.delay # "none"

\* C18: last_task_count is 0 and last_notification_time unset in every
\* state; no cycle calls send_notification or dispatches anything; the
\* comparison never takes the 'cleared' branch; the handler is entered only
\* by a cycle with count > 0, and every such cycle ends having reported the
\* error and run reconnect.
C18_StateNeverAdvances ==
    /\ last_task_count = 0
    /\ last_notification_time = 0
    /\ ~cyc.attempted /\ cyc.dispatched = "none"
    /\ pc = "compare" => MonitorBranch(cyc.count, last_task_count) # "cleared"
    /\ pc = "handler" => cyc.count > 0
    /\ (CycleDone /\ cyc.count > 0) =>
          (cyc.reconnected /\ rc.caller = "monitor" /\ rc.result # "none")
    /\ (CycleDone /\ cyc.count = 0) => ~cyc.reconnected

\* A cycle observed tasks and ended on the error path, reconnect having
\* succeeded.
C18_Witness ==
    /\ CycleDone
    /\ cyc.count > 0
    /\ cyc.reconnected
    /\ rc.result = "True"

\* The step of navigate_to_tasks a target phrase belongs to.
Step(target) ==
    CASE target = "main menu"  -> 1
      [] target = "go to task" -> 2
      [] OTHER                 -> 3

\* C19: within one navigate_to_tasks call the accepted clicks are in the
\* order 'main menu', 'go to task', 'tasks', at most one per step; 'go to
\* task' is accepted only on the most recent message with the welcome marker;
\* at most three retrievals are made, the third only by the panel step; and
\* every call returns.
C19_OrderedClicks ==
    /\ [](/\ \A i, j \in 1..Len(nav.clicks) :
               i < j => Step(nav.clicks[i]) < Step(nav.clicks[j])
          /\ Len(nav.clicks) <= 3
          /\ "go to task" \in Range(nav.clicks) => nav.welcomeFirst
          /\ nav.retrievals <= 3
          /\ "tasks" \in Range(nav.clicks) => nav.retrievals = 3)
    /\ (pc = "nav_reset") ~> NavReturned

\* A call in which each of the three steps had its click accepted.
C19_Witness ==
    /\ NavReturned
    /\ nav.clicks = <<"main menu", "go to task", "tasks">>
    /\ nav.retrievals = 3

\* C20: once an attempt of reconnect raised SessionPasswordNeededError, the
\* password-needed error has been reported and the only step the call takes
\* is its end: no further attempt is made whatever the attempts left, the
\* critical error is reported and False is returned.
C20_PasswordEndsReconnect ==
    /\ [](rc.password =>
             /\ rc.result \in {"none", "False"}
             /\ rc.result = "none" => (pc = "reconnect" /\ rc.report = "password")
             /\ rc.result = "False" => (rc.critical /\ rc.report = "critical"))
    /\ [][(pc = "reconnect" /\ rc.password) =>
             /\ rc'.tries = rc.tries
             /\ rc'.critical /\ rc'.result = "False"
             /\ pc' # "reconnect"]_vars

\* The first attempt needed the password: reconnect returned False with four
\* attempts left.
C20_Witness ==
    /\ rc.password
    /\ rc.tries = 1
    /\ rc.result = "False"
    /\ rc.critical

\* The cells of the examined grid scoring s or more against the target.
CellsAtLeast(s) ==
    LET cells == Cells(sel.buttons, 1)
    IN  { i \in 1..Len(cells) : similar(cells[i][3], sel.target) >= s }

\* C11: on an empty grid nothing is invoked; event.click is invoked exactly
\* when some cell scores threshold or more, and then at the cell of the
\* largest score, the first in row-major order among equals.
C11_SelectsFirstBest ==
    sel.called =>
        LET cells == Cells(sel.buttons, 1)
            score(i) == similar(cells[i][3], sel.target)
        IN  /\ sel.buttons = << >> => (~sel.r.invoked /\ sel.r.res = "False")
            /\ sel.r.invoked <=> CellsAtLeast(threshold) # {}
            /\ ~sel.r.invoked => (sel.r.at = << >> /\ sel.r.res = "False")
            /\ sel.r.invoked =>
                  \E i \in 1..Len(cells) :
                     /\ sel.r.at = <<cells[i][1], cells[i][2]>>
                     /\ \A j \in 1..Len(cells) : score(j) <= score(i)
                     /\ \A j \in 1..(i - 1) : score(j) < score(i)

\* Two cells score exactly the threshold, none more: the first is invoked.
C11_Witness ==
    /\ sel.called
    /\ sel.r.invoked
    /\ Cardinality(CellsAtLeast(threshold)) = 2
    /\ CellsAtLeast(threshold + 1) = {}
    /\ sel.r.at = <<0, 1>>

====
